---------------------------- MODULE Spec2Model ----------------------------
(***************************************************************************)
(* A model of the articulated-body walking simulation of walk/walk.py:     *)
(* Joint, Bone and HumanSkeleton and the frame loop that drives them.      *)
(*                                                                         *)
(* Number representation.  The program computes in binary floating point;  *)
(* the model computes in decimal fixed point, rounding every product and   *)
(* quotient to the nearest representable value:                            *)
(*   lengths and positions   1/Unit pixel                                  *)
(*   velocities and forces   1/Unit pixel per second                       *)
(*   angles                  1/AngleUnit radian                            *)
(*   sines and cosines       1/AngleUnit                                   *)
(*   masses                  1/MassUnit kg                                 *)
(*   time steps              milliseconds (clock.tick returns integer ms)  *)
(* NaN and infinities have no counterpart in this representation.          *)
(***************************************************************************)
EXTENDS Integers, Sequences, FiniteSets, TLC

Unit      == 10 ^ 2
AngleUnit == 10 ^ 4
MassUnit  == 10 ^ 4
SeriesUnit == 10 ^ 5

-----------------------------------------------------------------------------
(* Arithmetic on fixed-point numbers *)

Abs(a) == IF a < 0 THEN -a ELSE a

Max(a, b) == IF a >= b THEN a ELSE b

Min(a, b) == IF a <= b THEN a ELSE b

\* a / b rounded to the nearest integer, b > 0; like the rounding of floating
\* point it is symmetric in the sign: RDiv(-a, b) = -RDiv(a, b)
RDiv(a, b) ==
    IF a >= 0 THEN (a + b \div 2) \div b ELSE -((b \div 2 - a) \div b)

\* a * b of two numbers with denominator d, as a number with denominator d
Mul(a, b, d) == RDiv(a * b, d)

RECURSIVE SqrtIter(_, _)
SqrtIter(n, x) ==
    LET y == (x + n \div x) \div 2
    IN  IF y >= x THEN x ELSE SqrtIter(n, y)

\* floor of the square root
FloorSqrt(n) == IF n <= 1 THEN n ELSE SqrtIter(n, Min(n, 46340))

\* r or r + 1, whichever is nearer to the square root of n, r its floor
NearestRoot(n, r) == IF n - r * r > r THEN r + 1 ELSE r

\* math.sqrt of the square of a fixed-point number: the nearest integer root
Sqrt(n) == NearestRoot(n, FloorSqrt(n))

\* math.pi
PI == 31416

TWO_PI == 2 * PI

HALF_PI == PI \div 2

\* sin on [0, pi/2]: the Taylor series to the x^9 term, in Horner form
SinQuarter(x) ==
    LET x2 == Mul(x, x, AngleUnit)
        t4 == AngleUnit - RDiv(x2, 72)
        t3 == AngleUnit - RDiv(x2 * t4, 42 * AngleUnit)
        t2 == AngleUnit - RDiv(x2 * t3, 20 * AngleUnit)
        t1 == AngleUnit - RDiv(x2 * t2, 6 * AngleUnit)
    IN  Mul(x, t1, AngleUnit)

\* math.sin
Sin(a) ==
    LET m == a % TWO_PI
    IN  IF m <= HALF_PI THEN SinQuarter(m)
        ELSE IF m <= PI THEN SinQuarter(PI - m)
        ELSE IF m <= PI + HALF_PI THEN -SinQuarter(m - PI)
        ELSE -SinQuarter(TWO_PI - m)

\* math.cos
Cos(a) == Sin(a + HALF_PI)

\* atan t for t in [0, tan(pi/8)]: the Taylor series to the t^9 term, in
\* Horner form, u the square of t
AtanSeries(t, u) ==
    LET c4 == SeriesUnit \div 7 - RDiv(u * (SeriesUnit \div 9), AngleUnit)
        c3 == SeriesUnit \div 5 - RDiv(u * c4, AngleUnit)
        c2 == SeriesUnit \div 3 - RDiv(u * c3, AngleUnit)
        c1 == SeriesUnit - RDiv(u * c2, AngleUnit)
    IN  RDiv(t * c1, SeriesUnit)

\* atan t for t in [0, tan(pi/8)]
AtanSmall(t) == AtanSeries(t, Mul(t, t, AngleUnit))

\* atan z = 2 atan t, t = z / (1 + w), w the square root of 1 + z^2
AtanHalved(z, w) == 2 * AtanSmall(RDiv(z * AngleUnit, AngleUnit + w))

\* atan on [0, 1]
AtanUnit(z) == AtanHalved(z, Sqrt(AngleUnit * AngleUnit + z * z))

\* math.atan2(y, x), in (-pi, pi]
Atan2(y, x) ==
    LET ax == Abs(x)
        ay == Abs(y)
        base == IF ax = 0 /\ ay = 0 THEN 0
                ELSE IF ay <= ax THEN AtanUnit(RDiv(ay * AngleUnit, ax))
                ELSE HALF_PI - AtanUnit(RDiv(ax * AngleUnit, ay))
    IN  IF x >= 0 THEN (IF y >= 0 THEN base ELSE -base)
        ELSE (IF y >= 0 THEN PI - base ELSE base - PI)

-----------------------------------------------------------------------------
(* Module-level constants of walk.py *)

FPS == 60

WIDTH == 1200

HEIGHT == 800

\* pixels / second^2
GRAVITY == 600

\* ground level
GROUND_Y == (HEIGHT - 100) * Unit

\* FRICTION = 0.85, in hundredths
FRICTION == 85

\* the per-frame damping factor 0.95 of Joint.update, in hundredths
DAMPING == 95

-----------------------------------------------------------------------------
(* Joint *)

\* the value None of an optional angle_limits
None == <<>>

\* Joint.__init__
Joint(x, y, angle_limits) ==
    [x |-> x, y |-> y, vx |-> 0, vy |-> 0, angle_limits |-> angle_limits]

\* Joint.update with the ground test made on the position before the move
JointUpdate_TestBeforeMove(j, dt) ==
    LET vx1 == RDiv(j.vx * DAMPING, 100)
        vy1 == RDiv(j.vy * DAMPING, 100)
        x1  == j.x + RDiv(vx1 * dt, 1000)
        y1  == j.y + RDiv(vy1 * dt, 1000)
    IN  IF j.y > GROUND_Y
        THEN [j EXCEPT !.x = x1, !.y = GROUND_Y, !.vy = 0,
                       !.vx = RDiv(vx1 * FRICTION, 100)]
        ELSE [j EXCEPT !.x = x1, !.y = y1, !.vx = vx1, !.vy = vy1]

\* Joint.update with dt in milliseconds
JointUpdate(j, dt) ==
    LET vx1 == RDiv(j.vx * DAMPING, 100)
        vy1 == RDiv(j.vy * DAMPING, 100)
        x1  == j.x + RDiv(vx1 * dt, 1000)
        y1  == j.y + RDiv(vy1 * dt, 1000)
    IN  IF y1 > GROUND_Y
        THEN [j EXCEPT !.x = x1, !.y = GROUND_Y, !.vy = 0,
                       !.vx = RDiv(vx1 * FRICTION, 100)]
        ELSE [j EXCEPT !.x = x1, !.y = y1, !.vx = vx1, !.vy = vy1]

\* Joint.apply_force
JointApplyForce(j, fx, fy) == [j EXCEPT !.vx = @ + fx, !.vy = @ + fy]

-----------------------------------------------------------------------------
(* Bone; joint1 and joint2 are the names of the two joints in the          *)
(* skeleton's joint collection                                             *)

\* Bone.calculate_distance
calculate_distance(joints, joint1, joint2) ==
    LET dx == joints[joint2].x - joints[joint1].x
        dy == joints[joint2].y - joints[joint1].y
    IN  Sqrt(dx * dx + dy * dy)

\* Bone.__init__; the optional length is None or <<length>>, and
\* "length if length else" takes None and 0 alike as false
Bone(joints, joint1, joint2, mass, length, name) ==
    [joint1 |-> joint1, joint2 |-> joint2,
     rest_length |-> IF length # None /\ length[1] # 0 THEN length[1]
                     ELSE calculate_distance(joints, joint1, joint2),
     name |-> name, mass |-> mass]

-----------------------------------------------------------------------------
(* HumanSkeleton: construction *)

\* the keys of self.joints in insertion order
JointOrder ==
    << "head", "neck", "chest", "waist", "pelvis",
       "left_shoulder", "left_elbow", "left_hand",
       "right_shoulder", "right_elbow", "right_hand",
       "left_hip", "left_knee", "left_ankle", "left_foot",
       "right_hip", "right_knee", "right_ankle", "right_foot" >>

\* HumanSkeleton.create_joints; s holds the body proportions
create_joints(s, center_x, center_y) ==
    LET t2 == RDiv(s.torso_length, 2)
        t4 == RDiv(s.torso_length, 4)
        ua == s.upper_arm_length
        la == s.lower_arm_length
        ul == s.upper_leg_length
        ll == s.lower_leg_length
        f2 == RDiv(s.foot_length, 2)
        u15 == 15 * Unit
        u10 == 10 * Unit
    IN
    [n \in {JointOrder[i] : i \in DOMAIN JointOrder} |->
      CASE n = "head"  -> Joint(center_x, center_y - t2 - s.head_size, None)
        [] n = "neck"  -> Joint(center_x, center_y - t2,
                                <<-RDiv(PI, 16), RDiv(PI, 16)>>)
        [] n = "chest" -> Joint(center_x, center_y - t4,
                                <<-RDiv(PI, 6), RDiv(PI, 6)>>)
        [] n = "waist" -> Joint(center_x, center_y,
                                <<-RDiv(PI, 6), RDiv(PI, 6)>>)
        [] n = "pelvis" -> Joint(center_x, center_y + t4, None)
        [] n = "left_shoulder" ->
               Joint(center_x - u15, center_y - t4, <<-RDiv(PI, 2), PI>>)
        [] n = "left_elbow" ->
               Joint(center_x - u15, center_y - t4 + ua,
                     <<-RDiv(PI, 6), RDiv(PI * 5, 6)>>)
        [] n = "left_hand" ->
               Joint(center_x - u15, center_y - t4 + ua + la,
                     <<-RDiv(PI, 3), RDiv(PI, 3)>>)
        [] n = "right_shoulder" ->
               Joint(center_x + u15, center_y - t4, <<-PI, RDiv(PI, 2)>>)
        [] n = "right_elbow" ->
               Joint(center_x + u15, center_y - t4 + ua,
                     <<-RDiv(PI * 5, 6), RDiv(PI, 6)>>)
        [] n = "right_hand" ->
               Joint(center_x + u15, center_y - t4 + ua + la,
                     <<-RDiv(PI, 3), RDiv(PI, 3)>>)
        [] n = "left_hip" ->
               Joint(center_x - u10, center_y + t4,
                     <<-RDiv(PI, 3), RDiv(PI, 3)>>)
        [] n = "left_knee" ->
               Joint(center_x - u10, center_y + t4 + ul,
                     <<-RDiv(PI * 2, 3), 0>>)
        [] n = "left_ankle" ->
               Joint(center_x - u10, center_y + t4 + ul + ll,
                     <<-RDiv(PI, 3), RDiv(PI, 3)>>)
        [] n = "left_foot" ->
               Joint(center_x - u10 + f2, center_y + t4 + ul + ll, None)
        [] n = "right_hip" ->
               Joint(center_x + u10, center_y + t4,
                     <<-RDiv(PI, 3), RDiv(PI, 3)>>)
        [] n = "right_knee" ->
               Joint(center_x + u10, center_y + t4 + ul,
                     <<-RDiv(PI * 2, 3), 0>>)
        [] n = "right_ankle" ->
               Joint(center_x + u10, center_y + t4 + ul + ll,
                     <<-RDiv(PI, 3), RDiv(PI, 3)>>)
        [] n = "right_foot" ->
               Joint(center_x + u10 + f2, center_y + t4 + ul + ll, None)]

\* the table mass_percentages of calculate_segment_mass, in 1/MassUnit
mass_percentages ==
    [head |-> 810, neck |-> 140,
     upper_spine |-> 1580, mid_spine |-> 1020, lower_spine |-> 970,
     left_clavicle |-> 280, right_clavicle |-> 280,
     left_upper_arm |-> 280, right_upper_arm |-> 280,
     left_lower_arm |-> 220, right_lower_arm |-> 220,
     left_pelvis |-> 1000, right_pelvis |-> 1000,
     left_upper_leg |-> 1000, right_upper_leg |-> 1000,
     left_lower_leg |-> 465, right_lower_leg |-> 465,
     left_foot |-> 145, right_foot |-> 145]

\* the default fraction 0.01 of mass_percentages.get, in 1/MassUnit
DEFAULT_PERCENTAGE == 100

\* HumanSkeleton.calculate_segment_mass
calculate_segment_mass(body_mass, segment_name) ==
    Mul(body_mass,
        IF segment_name \in DOMAIN mass_percentages
        THEN mass_percentages[segment_name] ELSE DEFAULT_PERCENTAGE,
        MassUnit)

\* the helper create_bone of create_bones
create_bone(s, joint1, joint2, name) ==
    LET dx == s.joints[joint2].x - s.joints[joint1].x
        dy == s.joints[joint2].y - s.joints[joint1].y
        length == Sqrt(dx * dx + dy * dy)
        mass == calculate_segment_mass(s.body_mass, name)
    IN  Bone(s.joints, joint1, joint2, mass, <<length>>, name)

\* the calls of create_bone in create_bones: joint1, joint2, name
BoneTable ==
    << <<"head", "neck", "neck">>,
       <<"neck", "chest", "upper_spine">>,
       <<"chest", "waist", "mid_spine">>,
       <<"waist", "pelvis", "lower_spine">>,
       <<"chest", "left_shoulder", "left_clavicle">>,
       <<"left_shoulder", "left_elbow", "left_upper_arm">>,
       <<"left_elbow", "left_hand", "left_lower_arm">>,
       <<"chest", "right_shoulder", "right_clavicle">>,
       <<"right_shoulder", "right_elbow", "right_upper_arm">>,
       <<"right_elbow", "right_hand", "right_lower_arm">>,
       <<"pelvis", "left_hip", "left_pelvis">>,
       <<"left_hip", "left_knee", "left_upper_leg">>,
       <<"left_knee", "left_ankle", "left_lower_leg">>,
       <<"left_ankle", "left_foot", "left_foot">>,
       <<"pelvis", "right_hip", "right_pelvis">>,
       <<"right_hip", "right_knee", "right_upper_leg">>,
       <<"right_knee", "right_ankle", "right_lower_leg">>,
       <<"right_ankle", "right_foot", "right_foot">> >>

\* create_bones without its last append
create_bones_LastMissing(s) ==
    [i \in 1 .. Len(BoneTable) - 1 |->
        create_bone(s, BoneTable[i][1], BoneTable[i][2], BoneTable[i][3])]

\* HumanSkeleton.create_bones: self.bones after the appends
create_bones(s) ==
    [i \in DOMAIN BoneTable |->
        create_bone(s, BoneTable[i][1], BoneTable[i][2], BoneTable[i][3])]

\* HumanSkeleton.__init__; x, y in pixels, scale a whole number.  Six fields
\* observe the latest update: calls is the trace of the calls it made, peak
\* the largest magnitude of a component of a force it passed to apply_force,
\* lengths the lengths of the bones on entry to the relaxation pass and at
\* the end of each iteration, cycle_phase the local cycle_phase of the
\* latest apply_walking_forces, gait_targets its locals left_leg_offset_x,
\* left_leg_lift, right_leg_offset_x and right_leg_lift, relative_angle the
\* local relative_angle, once normalized, of the latest
\* apply_angle_constraint that computed one.
HumanSkeleton(x, y, scale) ==
    LET s0 == [scale |-> scale,
               head_size |-> 20 * scale * Unit,
               torso_length |-> 120 * scale * Unit,
               upper_arm_length |-> 60 * scale * Unit,
               lower_arm_length |-> 55 * scale * Unit,
               upper_leg_length |-> 80 * scale * Unit,
               lower_leg_length |-> 75 * scale * Unit,
               foot_length |-> 25 * scale * Unit,
               body_mass |-> 70 * MassUnit]
        s1 == [f \in DOMAIN s0 \cup {"joints"} |->
                 IF f = "joints" THEN create_joints(s0, x * Unit, y * Unit)
                 ELSE s0[f]]
    IN  [scale |-> s0.scale,
         head_size |-> s0.head_size,
         torso_length |-> s0.torso_length,
         upper_arm_length |-> s0.upper_arm_length,
         lower_arm_length |-> s0.lower_arm_length,
         upper_leg_length |-> s0.upper_leg_length,
         lower_leg_length |-> s0.lower_leg_length,
         foot_length |-> s0.foot_length,
         body_mass |-> s0.body_mass,
         joints |-> s1.joints,
         bones |-> create_bones(s1),
         walking |-> FALSE,
         walk_cycle_time |-> 0,
         walk_speed |-> 2,
         step_length |-> 40 * scale * Unit,
         standing_balance_force |-> 100,
         posture_force |-> 50,
         calls |-> <<>>,
         peak |-> 0,
         lengths |-> <<>>,
         cycle_phase |-> 0,
         gait_targets |-> <<0, 0, 0, 0>>,
         relative_angle |-> None]

-----------------------------------------------------------------------------
(* HumanSkeleton: the force generators *)

\* a call recorded in the trace of the running update
Call(h, c) == [h EXCEPT !.calls = Append(@, c)]

\* self.joints[name].apply_force(fx, fy)
apply_force(h, name, fx, fy) ==
    [h EXCEPT !.joints[name] = JointApplyForce(@, fx, fy),
              !.peak = Max(@, Max(Abs(fx), Abs(fy)))]

\* a clamp that lets every value through
Clamp_Open(lo, hi, v) == v

\* max(lo, min(hi, v))
Clamp(lo, hi, v) == Max(lo, Min(hi, v))

\* a right leg a quarter of a cycle behind the left one
RightPhase_QuarterCycle(cycle_phase) == cycle_phase + HALF_PI

\* right_phase of apply_walking_forces: 180 degrees out of phase
RightPhase(cycle_phase) == cycle_phase + PI

\* HumanSkeleton.apply_walking_forces
apply_walking_forces(h) ==
    LET cycle_phase == h.walk_cycle_time % TWO_PI
        leg_swing_amplitude == 30 * h.scale * Unit
        arm_swing_amplitude == 20 * h.scale * Unit
        vertical_bounce == 5 * h.scale * Unit
        left_phase == cycle_phase
        left_leg_offset_x == Mul(Sin(left_phase), leg_swing_amplitude, AngleUnit)
        left_leg_lift == Max(0, Mul(Sin(left_phase), 15 * h.scale * Unit, AngleUnit))
        right_phase == RightPhase(cycle_phase)
        right_leg_offset_x == Mul(Sin(right_phase), leg_swing_amplitude, AngleUnit)
        right_leg_lift == Max(0, Mul(Sin(right_phase), 15 * h.scale * Unit, AngleUnit))
        target_left_foot_x == h.joints["pelvis"].x - 10 * Unit + left_leg_offset_x
        target_left_foot_y == GROUND_Y - left_leg_lift
        target_right_foot_x == h.joints["pelvis"].x + 10 * Unit + right_leg_offset_x
        target_right_foot_y == GROUND_Y - right_leg_lift
        foot_force_strength == 10
        dx_left == target_left_foot_x - h.joints["left_foot"].x
        dy_left == target_left_foot_y - h.joints["left_foot"].y
        lfx == Clamp(-100 * Unit, 100 * Unit, dx_left * foot_force_strength)
        lfy == Clamp(-100 * Unit, 100 * Unit, dy_left * foot_force_strength)
        dx_right == target_right_foot_x - h.joints["right_foot"].x
        dy_right == target_right_foot_y - h.joints["right_foot"].y
        rfx == Clamp(-100 * Unit, 100 * Unit, dx_right * foot_force_strength)
        rfy == Clamp(-100 * Unit, 100 * Unit, dy_right * foot_force_strength)
        left_arm_swing == Mul(Sin(cycle_phase + PI), arm_swing_amplitude, AngleUnit)
        right_arm_swing == Mul(Sin(cycle_phase), arm_swing_amplitude, AngleUnit)
        left_force == Clamp(-30 * Unit, 30 * Unit, left_arm_swing * 2)
        right_force == Clamp(-30 * Unit, 30 * Unit, right_arm_swing * 2)
        forward_force == 5 * h.scale * Unit
        bounce == Mul(Sin(cycle_phase * 2), vertical_bounce, AngleUnit)
        bounce_force == Clamp(-20 * Unit, 20 * Unit, bounce * 2)
        h1 == apply_force(h, "left_foot", lfx, lfy)
        h2 == apply_force(h1, "right_foot", rfx, rfy)
        h3 == apply_force(h2, "left_hand", left_force, 0)
        h4 == apply_force(h3, "right_hand", right_force, 0)
        h5 == apply_force(h4, "pelvis", forward_force, 0)
    IN  [apply_force(h5, "pelvis", 0, bounce_force)
            EXCEPT !.cycle_phase = cycle_phase,
                   !.gait_targets = <<left_leg_offset_x, left_leg_lift,
                                      right_leg_offset_x, right_leg_lift>>]

\* a loop body that pulls a foot to the ground line from either side
KeepFootOnGround_BothSides(h, foot_name) ==
    LET foot == h.joints[foot_name]
        force_y == Clamp(-100 * Unit, 100 * Unit,
                         (GROUND_Y - foot.y) * h.standing_balance_force)
    IN  IF foot.y # GROUND_Y THEN apply_force(h, foot_name, 0, force_y) ELSE h

\* the body of the loop over the feet in maintain_standing_posture
KeepFootOnGround(h, foot_name) ==
    LET foot == h.joints[foot_name]
        force_y == Min((GROUND_Y - foot.y) * h.standing_balance_force, 100 * Unit)
    IN  IF foot.y < GROUND_Y THEN apply_force(h, foot_name, 0, force_y) ELSE h

\* maintain_standing_posture: keep pelvis centered between feet
BalancePelvis(h) ==
    LET left_foot == h.joints["left_foot"]
        right_foot == h.joints["right_foot"]
        pelvis == h.joints["pelvis"]
        target_pelvis_x == RDiv(left_foot.x + right_foot.x, 2)
        target_pelvis_y == GROUND_Y - h.upper_leg_length - h.lower_leg_length
                           - 20 * Unit
        force_x == (target_pelvis_x - pelvis.x) * h.posture_force
        force_y == (target_pelvis_y - pelvis.y) * h.posture_force
    IN  apply_force(h, "pelvis", Clamp(-300 * Unit, 300 * Unit, force_x),
                                 Clamp(-300 * Unit, 300 * Unit, force_y))

\* maintain_standing_posture: keep torso upright
BalanceChest(h) ==
    LET pelvis == h.joints["pelvis"]
        chest == h.joints["chest"]
        target_chest_x == pelvis.x
        target_chest_y == pelvis.y - RDiv(h.torso_length, 2)
        force_x == RDiv((target_chest_x - chest.x) * h.posture_force * 3, 10)
        force_y == RDiv((target_chest_y - chest.y) * h.posture_force * 3, 10)
    IN  apply_force(h, "chest", Clamp(-50 * Unit, 50 * Unit, force_x),
                                Clamp(-50 * Unit, 50 * Unit, force_y))

\* the dead zone of 2.0 pixels
DEAD_ZONE == 2

\* a head controller whose dead zone leaves out the distance 2.0 itself
BalanceHead_Inclusive(h) ==
    LET chest == h.joints["chest"]
        head == h.joints["head"]
        error_x == chest.x - head.x
        error_y == chest.y - RDiv(h.torso_length, 2) - h.head_size - head.y
        force_x == RDiv(error_x * h.posture_force, 10)
        force_y == RDiv(error_y * h.posture_force, 10)
    IN  IF error_x * error_x + error_y * error_y
               >= (DEAD_ZONE * Unit) * (DEAD_ZONE * Unit)
        THEN apply_force(h, "head", Clamp(-20 * Unit, 20 * Unit, force_x),
                                    Clamp(-20 * Unit, 20 * Unit, force_y))
        ELSE h

\* maintain_standing_posture: keep head above chest.  The square root is
\* monotone, so position_error_magnitude > dead_zone is tested on the
\* squares, where no rounding of the root can change the outcome.
BalanceHead(h) ==
    LET chest == h.joints["chest"]
        head == h.joints["head"]
        target_head_x == chest.x
        target_head_y == chest.y - RDiv(h.torso_length, 2) - h.head_size
        error_x == target_head_x - head.x
        error_y == target_head_y - head.y
        position_error_squared == error_x * error_x + error_y * error_y
        force_x == RDiv(error_x * h.posture_force, 10)
        force_y == RDiv(error_y * h.posture_force, 10)
    IN  IF position_error_squared > (DEAD_ZONE * Unit) * (DEAD_ZONE * Unit)
        THEN apply_force(h, "head", Clamp(-20 * Unit, 20 * Unit, force_x),
                                    Clamp(-20 * Unit, 20 * Unit, force_y))
        ELSE h

\* HumanSkeleton.maintain_standing_posture
maintain_standing_posture(h) ==
    BalanceHead(BalanceChest(BalancePelvis(
        KeepFootOnGround(KeepFootOnGround(h, "left_foot"), "right_foot"))))

\* a loop body that hangs the whole weight of a bone on its joint1
GravityOnBone_FirstJointOnly(h, bone, dt) ==
    LET force == RDiv(bone.mass * GRAVITY, MassUnit \div Unit)
    IN  apply_force(h, bone.joint1, 0, RDiv(force * dt, 1000))

\* the body of the loop of apply_gravity_to_bones, dt in milliseconds
GravityOnBone(h, bone, dt) ==
    LET half_force == RDiv(bone.mass * GRAVITY, (2 * MassUnit) \div Unit)
        dv == RDiv(half_force * dt, 1000)
    IN  apply_force(apply_force(h, bone.joint1, 0, dv), bone.joint2, 0, dv)

RECURSIVE GravityLoop(_, _, _)
GravityLoop(h, dt, i) ==
    IF i > Len(h.bones) THEN h
    ELSE GravityLoop(GravityOnBone(Call(h, <<"gravity", h.bones[i].name>>),
                                   h.bones[i], dt), dt, i + 1)

\* HumanSkeleton.apply_gravity_to_bones
apply_gravity_to_bones(h, dt) == GravityLoop(h, dt, 1)

-----------------------------------------------------------------------------
(* The constraints *)

\* apply_length_constraint that moves joint2 alone, by the whole correction
MoveJoints_SecondOnly(h, bone, offset_x, offset_y) ==
    [h EXCEPT !.joints[bone.joint2].x = @ - 2 * offset_x,
              !.joints[bone.joint2].y = @ - 2 * offset_y]

\* apply_length_constraint: move joints to maintain bone length
MoveJoints(h, bone, offset_x, offset_y) ==
    [h EXCEPT !.joints[bone.joint1].x = @ + offset_x,
              !.joints[bone.joint1].y = @ + offset_y,
              !.joints[bone.joint2].x = @ - offset_x,
              !.joints[bone.joint2].y = @ - offset_y]

\* apply_length_constraint that corrects half of the difference only
CorrectLength_HalfWay(h, bone, dx, dy, current_length) ==
    LET difference == current_length - bone.rest_length
    IN  IF current_length > 0
        THEN MoveJoints(h, bone, RDiv(dx * difference, 4 * current_length),
                                 RDiv(dy * difference, 4 * current_length))
        ELSE h

\* apply_length_constraint from the test of current_length on; the offsets
\* dx * percent and dy * percent are rounded once
CorrectLength(h, bone, dx, dy, current_length) ==
    LET difference == current_length - bone.rest_length
    IN  IF current_length > 0
        THEN MoveJoints(h, bone, RDiv(dx * difference, 2 * current_length),
                                 RDiv(dy * difference, 2 * current_length))
        ELSE h

\* apply_length_constraint that takes the length it finds as the new rest
\* length of the bone
apply_length_constraint_Rerest(h, i) ==
    LET bone == h.bones[i]
        dx == h.joints[bone.joint2].x - h.joints[bone.joint1].x
        dy == h.joints[bone.joint2].y - h.joints[bone.joint1].y
    IN  [CorrectLength(h, bone, dx, dy, Sqrt(dx * dx + dy * dy))
            EXCEPT !.bones[i].rest_length = Sqrt(dx * dx + dy * dy)]

\* Bone.apply_length_constraint on bone i of the skeleton
apply_length_constraint(h, i) ==
    LET bone == h.bones[i]
        dx == h.joints[bone.joint2].x - h.joints[bone.joint1].x
        dy == h.joints[bone.joint2].y - h.joints[bone.joint1].y
    IN  CorrectLength(h, bone, dx, dy, Sqrt(dx * dx + dy * dy))

\* the two while loops normalizing relative_angle
RECURSIVE NormalizeDown(_)
NormalizeDown(a) == IF a > PI THEN NormalizeDown(a - TWO_PI) ELSE a

RECURSIVE NormalizeUp(_)
NormalizeUp(a) == IF a < -PI THEN NormalizeUp(a + TWO_PI) ELSE a

\* the normalization without its second loop
NormalizeAngle_DownOnly(a) == NormalizeDown(a)

NormalizeAngle(a) == NormalizeUp(NormalizeDown(a))

\* the correction gain 1.5 of apply_angle_constraint, in tenths
CORRECTION_FORCE == 15

\* apply_angle_constraint that puts joint2 at the ideal position instead of
\* pushing it there
CorrectAngle_Snap(h, bone, parent_angle, current_angle) ==
    LET j1 == h.joints[bone.joint1]
        j2 == h.joints[bone.joint2]
        relative_angle == NormalizeAngle(current_angle - parent_angle)
        min_angle == j2.angle_limits[1]
        max_angle == j2.angle_limits[2]
        target_angle == IF relative_angle < min_angle
                        THEN parent_angle + min_angle
                        ELSE parent_angle + max_angle
        target_x == j1.x + Mul(bone.rest_length, Cos(target_angle), AngleUnit)
        target_y == j1.y + Mul(bone.rest_length, Sin(target_angle), AngleUnit)
    IN  [(IF relative_angle < min_angle \/ relative_angle > max_angle
          THEN [h EXCEPT !.joints[bone.joint2].x = target_x,
                         !.joints[bone.joint2].y = target_y]
          ELSE h)
            EXCEPT !.relative_angle = <<relative_angle>>]

\* apply_angle_constraint from the normalization on
CorrectAngle(h, bone, parent_angle, current_angle) ==
    LET j1 == h.joints[bone.joint1]
        j2 == h.joints[bone.joint2]
        relative_angle == NormalizeAngle(current_angle - parent_angle)
        min_angle == j2.angle_limits[1]
        max_angle == j2.angle_limits[2]
        target_angle == IF relative_angle < min_angle
                        THEN parent_angle + min_angle
                        ELSE parent_angle + max_angle
        target_x == j1.x + Mul(bone.rest_length, Cos(target_angle), AngleUnit)
        target_y == j1.y + Mul(bone.rest_length, Sin(target_angle), AngleUnit)
        force_x == RDiv((target_x - j2.x) * CORRECTION_FORCE, 10)
        force_y == RDiv((target_y - j2.y) * CORRECTION_FORCE, 10)
    IN  [(IF relative_angle < min_angle \/ relative_angle > max_angle
          THEN apply_force(h, bone.joint2, force_x, force_y)
          ELSE h)
            EXCEPT !.relative_angle = <<relative_angle>>]

\* apply_angle_constraint without the test of the parent vector
apply_angle_constraint_NoParentTest(h, i, p) ==
    LET bone == h.bones[i]
        parent_bone == h.bones[p]
        j1 == h.joints[bone.joint1]
        j2 == h.joints[bone.joint2]
    IN  IF j2.angle_limits # None /\ p # 0
        THEN CorrectAngle(h, bone,
                 Atan2(j1.y - h.joints[parent_bone.joint1].y,
                       j1.x - h.joints[parent_bone.joint1].x),
                 Atan2(j2.y - j1.y, j2.x - j1.x))
        ELSE h

\* Bone.apply_angle_constraint on bone i with parent bone p; p = 0 is None
apply_angle_constraint(h, i, p) ==
    LET bone == h.bones[i]
        parent_bone == h.bones[p]
        j1 == h.joints[bone.joint1]
        j2 == h.joints[bone.joint2]
        dx1 == j1.x - h.joints[parent_bone.joint1].x
        dy1 == j1.y - h.joints[parent_bone.joint1].y
        dx2 == j2.x - j1.x
        dy2 == j2.y - j1.y
    IN  IF j2.angle_limits # None /\ p # 0
        THEN IF dx1 # 0 \/ dy1 # 0
             THEN CorrectAngle(h, bone, Atan2(dy1, dx1), Atan2(dy2, dx2))
             ELSE h
        ELSE h

\* the table bone_hierarchy of apply_angle_constraints, in insertion order:
\* child bone, parent bone, joint
bone_hierarchy ==
    << <<"left_upper_arm", "left_clavicle", "left_elbow">>,
       <<"left_lower_arm", "left_upper_arm", "left_hand">>,
       <<"right_upper_arm", "right_clavicle", "right_elbow">>,
       <<"right_lower_arm", "right_upper_arm", "right_hand">>,
       <<"left_upper_leg", "left_pelvis", "left_knee">>,
       <<"left_lower_leg", "left_upper_leg", "left_ankle">>,
       <<"right_upper_leg", "right_pelvis", "right_knee">>,
       <<"right_lower_leg", "right_upper_leg", "right_ankle">>,
       <<"upper_spine", "lower_spine", "neck">>,
       <<"neck", "upper_spine", "head">> >>

\* the keys of bone_dict
BoneNames(h) == {h.bones[i].name : i \in DOMAIN h.bones}

\* bone_dict[name]: the index of the last bone of that name
bone_dict(h, name) ==
    CHOOSE i \in DOMAIN h.bones :
        /\ h.bones[i].name = name
        /\ \A k \in DOMAIN h.bones : h.bones[k].name = name => k <= i

\* the body of the loop of apply_angle_constraints for entry e of the table
AngleConstraintEntry(h, e) ==
    LET child_name == bone_hierarchy[e][1]
        parent_name == bone_hierarchy[e][2]
    IN  IF child_name \in BoneNames(h) /\ parent_name \in BoneNames(h)
        THEN apply_angle_constraint(
                 Call(h, <<"apply_angle_constraint", child_name, parent_name>>),
                 bone_dict(h, child_name), bone_dict(h, parent_name))
        ELSE h

RECURSIVE AngleLoop(_, _)
AngleLoop(h, e) ==
    IF e > Len(bone_hierarchy) \/ h.bones = <<>> THEN h
    ELSE AngleLoop(AngleConstraintEntry(h, e), e + 1)

\* HumanSkeleton.apply_angle_constraints
apply_angle_constraints(h) == AngleLoop(h, 1)

-----------------------------------------------------------------------------
(* HumanSkeleton.update *)

RECURSIVE JointLoop(_, _, _)
JointLoop(h, dt, k) ==
    IF k > Cardinality(DOMAIN h.joints) THEN h
    ELSE JointLoop(
             [Call(h, <<"Joint.update", JointOrder[k]>>)
                 EXCEPT !.joints[JointOrder[k]] = JointUpdate(@, dt)],
             dt, k + 1)

\* for joint in self.joints.values(): joint.update(dt)
UpdateAllJoints(h, dt) == JointLoop(h, dt, 1)

RECURSIVE LengthLoop(_, _)
LengthLoop(h, i) ==
    IF i > Len(h.bones) THEN h
    ELSE LengthLoop(
             apply_length_constraint(
                 Call(h, <<"apply_length_constraint", h.bones[i].name>>), i),
             i + 1)

\* an iteration that applies the angle constraints before the lengths
RelaxOnce_AnglesFirst(h) == LengthLoop(apply_angle_constraints(h), 1)

\* one iteration of the relaxation loop
RelaxOnce(h) == apply_angle_constraints(LengthLoop(h, 1))

\* range(3)
ITERATIONS == 3

\* the lengths of the bones, appended to the record of the running update
Measure(h) ==
    [h EXCEPT !.lengths =
        Append(@, [i \in DOMAIN h.bones |->
                      calculate_distance(h.joints, h.bones[i].joint1,
                                         h.bones[i].joint2)])]

RECURSIVE RelaxLoop(_, _)
RelaxLoop(h, n) ==
    IF n = 0 THEN h ELSE RelaxLoop(Measure(RelaxOnce(h)), n - 1)

\* a relaxation pass that leaves the skeleton standing
Relaxation_StandsStill(h) ==
    [RelaxLoop(Measure(h), ITERATIONS) EXCEPT !.walking = FALSE]

\* for iteration in range(3): the relaxation pass
Relaxation(h) == RelaxLoop(Measure(h), ITERATIONS)

\* the skeleton on entry to update: nothing observed yet
BeginUpdate(h) == [h EXCEPT !.calls = <<>>, !.peak = 0, !.lengths = <<>>]

\* a gait generator that reads the phase before the update advances it
GenerateForces_PhaseAfter(h, dt) ==
    IF h.walking
    THEN [apply_walking_forces(Call(h, <<"apply_walking_forces">>))
             EXCEPT !.walk_cycle_time =
                       @ + RDiv(dt * h.walk_speed * AngleUnit, 1000)]
    ELSE maintain_standing_posture(Call(h, <<"maintain_standing_posture">>))

\* the force generator chosen by the walking flag
GenerateForces(h, dt) ==
    IF h.walking
    THEN apply_walking_forces(
             Call([h EXCEPT !.walk_cycle_time =
                              @ + RDiv(dt * h.walk_speed * AngleUnit, 1000)],
                  <<"apply_walking_forces">>))
    ELSE maintain_standing_posture(Call(h, <<"maintain_standing_posture">>))

\* update with gravity applied before the joints are integrated
update_GravityFirst(h, dt) ==
    Relaxation(UpdateAllJoints(
        apply_gravity_to_bones(GenerateForces(BeginUpdate(h), dt), dt), dt))

\* HumanSkeleton.update(dt), dt in milliseconds
update(h, dt) ==
    Relaxation(apply_gravity_to_bones(
        UpdateAllJoints(GenerateForces(BeginUpdate(h), dt), dt), dt))

\* start_walking that restarts the gait cycle
start_walking_RestartGait(h) ==
    [h EXCEPT !.walking = TRUE, !.walk_cycle_time = 0]

\* HumanSkeleton.start_walking
start_walking(h) == [h EXCEPT !.walking = TRUE]

\* HumanSkeleton.stop_walking
stop_walking(h) == [h EXCEPT !.walking = FALSE]

-----------------------------------------------------------------------------
(* The program as a state machine.                                         *)
(*   human   the skeleton object of main                                   *)
(*   ctor    the arguments <<x, y, scale>> it is constructed with          *)
(*   frames  the number of update calls made so far                        *)
(*   last    the latest operation on the skeleton                          *)
(*   joint   a single Joint object driven on its own (JointSpec)           *)
(*   jcall   the latest call on that joint, with the joint before the call *)
(*   loop    the frame loop of main: the statement it is at (pc), the dt   *)
(*           of the running frame, whether running is still true, the      *)
(*           skeleton as it was at the latest call of an operation that    *)
(*           is observed (entry), and the pixels draw read last (drawn)    *)
(***************************************************************************)
VARIABLES human, ctor, frames, last, joint, jcall, loop

vars == <<human, ctor, frames, last, joint, jcall, loop>>

\* the largest number of update calls in a run
MaxFrames == 3

\* the constructor arguments: main's own (WIDTH // 2, HEIGHT // 2, scale 1),
\* a skeleton built standing on the ground line, and one of twice the size
Constructions ==
    { <<WIDTH \div 2, HEIGHT \div 2, 1>>,
      <<WIDTH \div 2, 515, 1>>,
      <<300, 330, 2>> }

\* clock.tick(FPS) in milliseconds at 60 frames per second
FrameTimes == {1000 \div FPS, 1000 \div FPS + 1}

NoCall == [op |-> "none", dt |-> 0, before |-> Joint(0, 0, None)]

\* the frame loop before its first frame, h the skeleton just constructed
NewLoop(h) ==
    [pc |-> "tick", dt |-> 0, running |-> TRUE, entry |-> h, drawn |-> <<>>]

Init ==
    /\ ctor \in Constructions
    /\ human = HumanSkeleton(ctor[1], ctor[2], ctor[3])
    /\ frames = 0
    /\ last = "init"
    /\ joint = Joint(0, 0, None)
    /\ jcall = NoCall
    /\ loop = NewLoop(human)

\* human.update(dt)
Update(dt) ==
    /\ frames < MaxFrames
    /\ human' = update(human, dt)
    /\ frames' = frames + 1
    /\ last' = "update"
    /\ loop' = [loop EXCEPT !.dt = dt, !.entry = human]
    /\ UNCHANGED <<ctor, joint, jcall>>

\* human.start_walking()
StartWalking ==
    /\ human' = start_walking(human)
    /\ last' = "start_walking"
    /\ UNCHANGED <<ctor, frames, joint, jcall, loop>>

\* human.stop_walking()
StopWalking ==
    /\ human' = stop_walking(human)
    /\ last' = "stop_walking"
    /\ UNCHANGED <<ctor, frames, joint, jcall, loop>>

\* a reset that puts the joints of the old skeleton back in place
ResetSkeleton_InPlace(old, c) ==
    [old EXCEPT !.joints = create_joints(old, c[1] * Unit, c[2] * Unit),
                !.calls = <<>>, !.peak = 0, !.lengths = <<>>]

\* the reset of main: the skeleton is replaced by a newly constructed one
ResetSkeleton(old, c) == HumanSkeleton(c[1], c[2], c[3])

\* K_r
Reset ==
    /\ human' = ResetSkeleton(human, ctor)
    /\ last' = "reset"
    /\ loop' = [loop EXCEPT !.dt = 0, !.entry = human']
    /\ UNCHANGED <<ctor, frames, joint, jcall>>

Next ==
    \/ \E dt \in FrameTimes : Update(dt)
    \/ StartWalking
    \/ StopWalking
    \/ Reset

Spec == Init /\ [][Next]_vars

-----------------------------------------------------------------------------
(* A single joint driven on its own: Joint.update and Joint.apply_force    *)
(* from any position and velocity                                          *)

\* the largest number of calls on the joint in a run
MaxJointCalls == 3

\* the heights a joint is constructed at: above, just above, on and below
\* the ground line
JointHeights ==
    {GROUND_Y - 10 * Unit, GROUND_Y - 1, GROUND_Y, GROUND_Y + Unit \div 2}

\* the forces applied to it
JointForces ==
    { <<0, 200 * Unit>>, <<-30 * Unit, -100 * Unit>>, <<100 * Unit, 50 * Unit>> }

\* the time steps in milliseconds
JointTimes == {1000 \div FPS, 2 * (1000 \div FPS) + 1}

JointInit ==
    /\ ctor = <<WIDTH \div 2, HEIGHT \div 2, 1>>
    /\ human = HumanSkeleton(ctor[1], ctor[2], ctor[3])
    /\ frames = 0
    /\ last = "init"
    /\ joint \in {Joint((WIDTH \div 2) * Unit, y, None) : y \in JointHeights}
    /\ jcall = NoCall
    /\ loop = NewLoop(human)

\* joint.update(dt)
JointDoUpdate(dt) ==
    /\ frames < MaxJointCalls
    /\ joint' = JointUpdate(joint, dt)
    /\ jcall' = [op |-> "update", dt |-> dt, before |-> joint]
    /\ frames' = frames + 1
    /\ UNCHANGED <<human, ctor, last, loop>>

\* joint.apply_force(fx, fy)
JointDoApplyForce(f) ==
    /\ frames < MaxJointCalls
    /\ joint' = JointApplyForce(joint, f[1], f[2])
    /\ jcall' = [op |-> "apply_force", dt |-> 0, before |-> joint]
    /\ frames' = frames + 1
    /\ UNCHANGED <<human, ctor, last, loop>>

JointNext ==
    \/ \E dt \in JointTimes : JointDoUpdate(dt)
    \/ \E f \in JointForces : JointDoApplyForce(f)

JointSpec == JointInit /\ [][JointNext]_vars

-----------------------------------------------------------------------------
(* The frame loop of main, statement by statement, with the four phases of *)
(* HumanSkeleton.update as separate steps                                  *)

\* the largest number of frames in a run of the loop
MaxLoops == 2

\* int(v) of a coordinate: truncation toward zero, to whole pixels
Trunc(v) == IF v >= 0 THEN v \div Unit ELSE -((-v) \div Unit)

\* what HumanSkeleton.draw reads: the pixel of every joint
Pixels(h) ==
    [n \in DOMAIN h.joints |-> <<Trunc(h.joints[n].x), Trunc(h.joints[n].y)>>]

FrameInit ==
    /\ ctor = <<WIDTH \div 2, HEIGHT \div 2, 1>>
    /\ human = HumanSkeleton(ctor[1], ctor[2], ctor[3])
    /\ frames = 0
    /\ last = "init"
    /\ joint = Joint(0, 0, None)
    /\ jcall = NoCall
    /\ loop = NewLoop(human)

\* while running: dt = clock.tick(FPS) / 1000.0
Tick(dt) ==
    /\ loop.pc = "tick"
    /\ frames < MaxLoops
    /\ loop' = [loop EXCEPT !.pc = "events", !.dt = dt]
    /\ last' = "tick"
    /\ UNCHANGED <<human, ctor, frames, joint, jcall>>

\* the event pygame.QUIT
Quit ==
    /\ loop.pc = "events"
    /\ loop.running
    /\ loop' = [loop EXCEPT !.running = FALSE]
    /\ last' = "quit"
    /\ UNCHANGED <<human, ctor, frames, joint, jcall>>

\* the key K_SPACE
KeySpace ==
    /\ loop.pc = "events"
    /\ human' = IF human.walking THEN stop_walking(human)
                 ELSE start_walking(human)
    /\ last' = IF human.walking THEN "stop_walking" ELSE "start_walking"
    /\ UNCHANGED <<ctor, frames, joint, jcall, loop>>

\* the key K_r
KeyR ==
    /\ loop.pc = "events"
    /\ human' = ResetSkeleton(human, ctor)
    /\ last' = "reset"
    /\ UNCHANGED <<ctor, frames, joint, jcall, loop>>

\* human.update(dt) is called once the events are handled: its first phase
PhaseForces ==
    /\ loop.pc = "events"
    /\ human' = GenerateForces(BeginUpdate(human), loop.dt)
    /\ loop' = [loop EXCEPT !.pc = "integrate", !.entry = human]
    /\ last' = "generate_forces"
    /\ UNCHANGED <<ctor, frames, joint, jcall>>

PhaseIntegrate ==
    /\ loop.pc = "integrate"
    /\ human' = UpdateAllJoints(human, loop.dt)
    /\ loop' = [loop EXCEPT !.pc = "gravity"]
    /\ last' = "integrate"
    /\ UNCHANGED <<ctor, frames, joint, jcall>>

PhaseGravity ==
    /\ loop.pc = "gravity"
    /\ human' = apply_gravity_to_bones(human, loop.dt)
    /\ loop' = [loop EXCEPT !.pc = "relax"]
    /\ last' = "gravity"
    /\ UNCHANGED <<ctor, frames, joint, jcall>>

\* the last phase; update returns
PhaseRelax ==
    /\ loop.pc = "relax"
    /\ human' = Relaxation(human)
    /\ loop' = [loop EXCEPT !.pc = "draw"]
    /\ last' = "relax"
    /\ UNCHANGED <<ctor, frames, joint, jcall>>

\* a draw that does not wait for the relaxation pass
Draw_BeforeRelaxation ==
    /\ loop.pc = "relax"
    /\ loop' = [loop EXCEPT !.pc = "tick", !.drawn = Pixels(human)]
    /\ frames' = frames + 1
    /\ last' = "draw"
    /\ UNCHANGED <<human, ctor, joint, jcall>>

\* human.draw(screen), the end of the frame
Draw ==
    /\ loop.pc = "draw"
    /\ loop' = [loop EXCEPT !.pc = IF loop.running THEN "tick" ELSE "done",
                            !.drawn = Pixels(human)]
    /\ frames' = frames + 1
    /\ last' = "draw"
    /\ UNCHANGED <<human, ctor, joint, jcall>>

FrameNext ==
    \/ \E dt \in FrameTimes : Tick(dt)
    \/ Quit
    \/ KeySpace
    \/ KeyR
    \/ PhaseForces
    \/ PhaseIntegrate
    \/ PhaseGravity
    \/ PhaseRelax
    \/ Draw

FrameSpec == FrameInit /\ [][FrameNext]_vars

-----------------------------------------------------------------------------
(* A skeleton whose bone list lacks a bone that the hierarchy table names, *)
(* as a subclass makes it whose create_bones leaves the left clavicle out  *)

\* the bones of h without the bone of that name
WithoutBone(h, name) ==
    [h EXCEPT !.bones = SelectSeq(@, LAMBDA b : b.name # name)]

EditedInit ==
    /\ ctor \in Constructions
    /\ human = WithoutBone(HumanSkeleton(ctor[1], ctor[2], ctor[3]),
                            "left_clavicle")
    /\ frames = 0
    /\ last = "init"
    /\ joint = Joint(0, 0, None)
    /\ jcall = NoCall
    /\ loop = NewLoop(human)

EditedNext ==
    \/ \E dt \in FrameTimes : Update(dt)
    \/ StartWalking
    \/ StopWalking

EditedSpec == EditedInit /\ [][EditedNext]_vars

-----------------------------------------------------------------------------
(* Two bones on their own: a parent bone chest - left_shoulder and a bone  *)
(* left_shoulder - left_elbow made with the constructors Joint and Bone,   *)
(* and the calls that act on them, one at a time.  human holds the         *)
(* assembly, ctor the arguments it is made with, loop.entry the assembly   *)
(* before the latest call.                                                 *)

\* the largest number of calls in a run
MaxBoneCalls == 3

\* the vector from chest to left_shoulder: none, that of the skeleton, and
\* that of a raised shoulder
ShoulderOffsets == { <<0, 0>>, <<-15 * Unit, 0>>, <<-15 * Unit, -20 * Unit>> }

\* the vector from left_shoulder to left_elbow: none, that of the skeleton
\* (beyond the angle limit), one more beyond, one within the limits and one
\* pointing the opposite way of the clavicle of the skeleton
ElbowOffsets ==
    { <<0, 0>>, <<0, 60 * Unit>>, <<30 * Unit, 40 * Unit>>,
      <<-30 * Unit, -40 * Unit>>, <<50 * Unit, 0>> }

\* the argument length of the bone: left out, an explicit 0, an explicit 50
LengthArguments == { None, <<0>>, <<50 * Unit>> }

\* the masses of the bone
BoneMasses == { 2 * MassUnit, 7 * MassUnit }

\* the argument angle_limits of the joint left_elbow: left out, and that of
\* the skeleton
ElbowLimits == { None, <<-RDiv(PI, 6), RDiv(PI * 5, 6)>> }

\* the arguments of an assembly: shoulder, elbow, length, mass, limits
BoneArguments ==
    ShoulderOffsets \X ElbowOffsets \X LengthArguments \X BoneMasses
        \X ElbowLimits

\* the three joints, chest at (600, 300)
BoneJoints(c) ==
    [n \in {"chest", "left_shoulder", "left_elbow"} |->
        CASE n = "chest" ->
               Joint(600 * Unit, 300 * Unit, <<-RDiv(PI, 6), RDiv(PI, 6)>>)
          [] n = "left_shoulder" ->
               Joint(600 * Unit + c[1][1], 300 * Unit + c[1][2],
                     <<-RDiv(PI, 2), PI>>)
          [] n = "left_elbow" ->
               Joint(600 * Unit + c[1][1] + c[2][1],
                     300 * Unit + c[1][2] + c[2][2], c[5])]

\* the joints and the two bones constructed on them
BoneAssembly(c) ==
    [joints |-> BoneJoints(c),
     bones |-> << Bone(BoneJoints(c), "chest", "left_shoulder", c[4], None,
                       "left_clavicle"),
                  Bone(BoneJoints(c), "left_shoulder", "left_elbow", c[4],
                       c[3], "left_upper_arm") >>,
     calls |-> <<>>,
     peak |-> 0,
     relative_angle |-> None]

\* the forces applied to a joint
BoneForces == { <<300 * Unit, 400 * Unit>>, <<-600 * Unit, 0>> }

BoneInit ==
    /\ ctor \in BoneArguments
    /\ human = BoneAssembly(ctor)
    /\ frames = 0
    /\ last = "init"
    /\ joint = Joint(0, 0, None)
    /\ jcall = NoCall
    /\ loop = NewLoop(human)

\* joint.apply_force(fx, fy) on left_shoulder or left_elbow
BoneApplyForce(n, f) ==
    /\ frames < MaxBoneCalls
    /\ human' = apply_force(human, n, f[1], f[2])
    /\ last' = "apply_force"
    /\ frames' = frames + 1
    /\ loop' = [loop EXCEPT !.entry = human]
    /\ UNCHANGED <<ctor, joint, jcall>>

\* joint.update(dt) on every joint
BoneUpdateJoints(dt) ==
    /\ frames < MaxBoneCalls
    /\ human' = [human EXCEPT !.joints =
                    [n \in DOMAIN human.joints |-> JointUpdate(human.joints[n], dt)]]
    /\ last' = "Joint.update"
    /\ frames' = frames + 1
    /\ loop' = [loop EXCEPT !.dt = dt, !.entry = human]
    /\ UNCHANGED <<ctor, joint, jcall>>

\* bone.apply_length_constraint()
BoneLengthConstraint ==
    /\ frames < MaxBoneCalls
    /\ human' = apply_length_constraint(human, 2)
    /\ last' = "apply_length_constraint"
    /\ frames' = frames + 1
    /\ loop' = [loop EXCEPT !.entry = human]
    /\ UNCHANGED <<ctor, joint, jcall>>

\* bone.apply_angle_constraint(parent_bone)
BoneAngleConstraint ==
    /\ frames < MaxBoneCalls
    /\ human' = apply_angle_constraint(human, 2, 1)
    /\ last' = "apply_angle_constraint"
    /\ frames' = frames + 1
    /\ loop' = [loop EXCEPT !.entry = human]
    /\ UNCHANGED <<ctor, joint, jcall>>

\* bone.apply_angle_constraint(None)
BoneAngleConstraintAlone ==
    /\ frames < MaxBoneCalls
    /\ human' = apply_angle_constraint(human, 2, 0)
    /\ last' = "apply_angle_constraint(None)"
    /\ frames' = frames + 1
    /\ loop' = [loop EXCEPT !.entry = human]
    /\ UNCHANGED <<ctor, joint, jcall>>

\* one iteration of the relaxation loop on the two bones
BoneRelaxOnce ==
    /\ frames < MaxBoneCalls
    /\ human' = RelaxOnce([human EXCEPT !.calls = <<>>])
    /\ last' = "relax_once"
    /\ frames' = frames + 1
    /\ loop' = [loop EXCEPT !.entry = human]
    /\ UNCHANGED <<ctor, joint, jcall>>

BoneNext ==
    \/ \E n \in {"left_shoulder", "left_elbow"} :
           \E f \in BoneForces : BoneApplyForce(n, f)
    \/ \E dt \in {1000 \div FPS} : BoneUpdateJoints(dt)
    \/ BoneLengthConstraint
    \/ BoneAngleConstraint
    \/ BoneAngleConstraintAlone
    \/ BoneRelaxOnce

BoneSpec == BoneInit /\ [][BoneNext]_vars

-----------------------------------------------------------------------------
(* Properties *)

\* the positions in the trace of the latest update of the calls of one kind
CallsOf(kind) == {i \in DOMAIN human.calls : human.calls[i][1] = kind}

ForceGenerators == {"apply_walking_forces", "maintain_standing_posture"}

GeneratorCalls == {i \in DOMAIN human.calls : human.calls[i][1] \in ForceGenerators}

ConstraintCalls ==
    CallsOf("apply_length_constraint") \cup CallsOf("apply_angle_constraint")

\* every position of I comes before every position of J
AllBefore(I, J) == \A i \in I : \A j \in J : i < j

\* C1: every update runs, in this order and each once, exactly one force
\* generator (the gait generator iff the skeleton is walking, else the
\* balance controller), the integration of every joint, gravity on every
\* bone, and the relaxation pass: no joint is integrated before the force
\* generator, gravity comes after all integrations, and no constraint is
\* applied before gravity has been applied to all bones.
C1_PhaseOrder ==
    last = "update" =>
        /\ Cardinality(GeneratorCalls) = 1
        /\ human.calls[1] = IF human.walking
                            THEN <<"apply_walking_forces">>
                            ELSE <<"maintain_standing_posture">>
        /\ \A n \in DOMAIN human.joints :
               Cardinality({i \in DOMAIN human.calls :
                               human.calls[i] = <<"Joint.update", n>>}) = 1
        /\ Cardinality(CallsOf("Joint.update")) = Cardinality(DOMAIN human.joints)
        /\ \A b \in DOMAIN human.bones :
               Cardinality({i \in DOMAIN human.calls :
                               human.calls[i] = <<"gravity", human.bones[b].name>>}) = 1
        /\ Cardinality(CallsOf("gravity")) = Len(human.bones)
        /\ ConstraintCalls # {}
        /\ AllBefore(GeneratorCalls, CallsOf("Joint.update"))
        /\ AllBefore(CallsOf("Joint.update"), CallsOf("gravity"))
        /\ AllBefore(CallsOf("gravity"), ConstraintCalls)
        /\ DOMAIN human.calls =
               GeneratorCalls \cup CallsOf("Joint.update")
                   \cup CallsOf("gravity") \cup ConstraintCalls

\* an update made while walking, after an earlier frame
C1_Witness ==
    /\ last = "update"
    /\ frames >= 2
    /\ human.walking
    /\ human.calls[1] = <<"apply_walking_forces">>

\* the calls of one relaxation iteration: the length constraint on every
\* bone in the order of the bone list, then the angle constraint on every
\* entry of the hierarchy table with its tabulated parent
ExpectedIteration ==
    [i \in DOMAIN human.bones |->
        <<"apply_length_constraint", human.bones[i].name>>]
    \o [e \in DOMAIN bone_hierarchy |->
        <<"apply_angle_constraint", bone_hierarchy[e][1], bone_hierarchy[e][2]>>]

\* the constraint calls of the latest update, in order
RelaxationCalls ==
    SelectSeq(human.calls,
              LAMBDA c : c[1] \in {"apply_length_constraint", "apply_angle_constraint"})

\* C2: every update makes exactly 3 relaxation iterations; each applies the
\* length constraint to every bone in the order of the bone list and then the
\* angle constraint to exactly the 10 bones of the hierarchy table, each with
\* its tabulated parent.
C2_ThreeIterations ==
    last = "update" =>
        /\ RelaxationCalls = ExpectedIteration \o ExpectedIteration \o ExpectedIteration
        /\ Cardinality(CallsOf("apply_angle_constraint")) = 3 * 10
        /\ Cardinality(CallsOf("apply_length_constraint")) = 3 * Len(human.bones)
        /\ \A e \in DOMAIN bone_hierarchy :
               /\ bone_hierarchy[e][1] \in BoneNames(human)
               /\ bone_hierarchy[e][2] \in BoneNames(human)

\* an update, ending with the last entry of the hierarchy table, of a
\* skeleton with a joint on the far side of the ground line
C2_Witness ==
    /\ last = "update"
    /\ Len(RelaxationCalls) = 3 * (18 + 10)
    /\ human.calls[Len(human.calls)] = <<"apply_angle_constraint", "neck", "upper_spine">>
    /\ \E n \in DOMAIN human.joints : human.joints[n].y > GROUND_Y

\* C3: start_walking and stop_walking change nothing but the walking flag,
\* which they set to true and to false, and a second call in a row leaves
\* the state the first call produced.
C3_ToggleIdempotent ==
    [][/\ last' = "start_walking" =>
            /\ human' = [human EXCEPT !.walking = TRUE]
            /\ start_walking(human') = human'
       /\ last' = "stop_walking" =>
            /\ human' = [human EXCEPT !.walking = FALSE]
            /\ stop_walking(human') = human']_vars

\* start_walking called on a skeleton that has walked, its gait phase and
\* its joints no longer those of construction
C3_Witness ==
    /\ last = "start_walking"
    /\ human.walking
    /\ human.walk_cycle_time > 0
    /\ \E n \in DOMAIN human.joints : human.joints[n].vx # 0

\* C4: a reset yields the state of a newly constructed skeleton: the joint
\* positions of construction, all velocities zero, the rest lengths and
\* masses of construction, walking false and gait phase 0.
C4_ResetRestoresInitial ==
    last = "reset" =>
        /\ human = HumanSkeleton(ctor[1], ctor[2], ctor[3])
        /\ human.walking = FALSE
        /\ human.walk_cycle_time = 0
        /\ \A n \in DOMAIN human.joints :
               human.joints[n].vx = 0 /\ human.joints[n].vy = 0

\* a reset made after all the updates of a run
C4_Witness ==
    /\ last = "reset"
    /\ frames = MaxFrames

\* the position and velocity Joint.update computes before the ground test
Damped(v) == RDiv(v * DAMPING, 100)

Moved(p, v, dt) == p + RDiv(Damped(v) * dt, 1000)

\* C6: after Joint.update the joint's y is <= GROUND_Y; when the new y
\* would exceed GROUND_Y, y is GROUND_Y, vy is 0 and the damped vx is
\* multiplied by the friction factor; otherwise there is no clamp and no
\* friction.
C6_GroundInvariant ==
    jcall.op = "update" =>
        /\ joint.y <= GROUND_Y
        /\ joint.x = Moved(jcall.before.x, jcall.before.vx, jcall.dt)
        /\ Moved(jcall.before.y, jcall.before.vy, jcall.dt) > GROUND_Y =>
               /\ joint.y = GROUND_Y
               /\ joint.vy = 0
               /\ joint.vx = RDiv(Damped(jcall.before.vx) * FRICTION, 100)
        /\ Moved(jcall.before.y, jcall.before.vy, jcall.dt) <= GROUND_Y =>
               /\ joint.y = Moved(jcall.before.y, jcall.before.vy, jcall.dt)
               /\ joint.vy = Damped(jcall.before.vy)
               /\ joint.vx = Damped(jcall.before.vx)

\* a joint above the ground line, moving sideways, carried through the
\* line by one update
C6_Witness ==
    /\ jcall.op = "update"
    /\ jcall.before.y < GROUND_Y
    /\ jcall.before.vx # 0
    /\ Moved(jcall.before.y, jcall.before.vy, jcall.dt) > GROUND_Y

\* C7: at the end of every update every joint's y is <= GROUND_Y.
C7_FrameEndsAboveGround ==
    last = "update" => \A n \in DOMAIN human.joints : human.joints[n].y <= GROUND_Y

RECURSIVE SumOfMasses(_, _)
SumOfMasses(bones, i) ==
    IF i > Len(bones) THEN 0 ELSE bones[i].mass + SumOfMasses(bones, i + 1)

\* C8: the masses of the bones of a skeleton sum to its body mass, and a
\* segment name that is not in the mass table gets 1% of the body mass.
C8_TotalMass ==
    /\ SumOfMasses(human.bones, 1) = human.body_mass
    /\ calculate_segment_mass(human.body_mass, "tail") = RDiv(human.body_mass, 100)

\* the bones keep the order, the names and the endpoint joints create_bones
\* gave them
BonesAsCreated ==
    \A i \in DOMAIN human.bones :
        /\ i \in DOMAIN BoneTable
        /\ human.bones[i].joint1 = BoneTable[i][1]
        /\ human.bones[i].joint2 = BoneTable[i][2]
        /\ human.bones[i].name = BoneTable[i][3]

JointNames == {JointOrder[i] : i \in DOMAIN JointOrder}

\* C9 as stated: 18 joints and 17 bones, and the joint names and the
\* endpoints of the bones never change.
C9_Counts18And17 ==
    /\ Cardinality(DOMAIN human.joints) = 18
    /\ Len(human.bones) = 17
    /\ DOMAIN human.joints = JointNames
    /\ BonesAsCreated

\* C9 amended: a skeleton owns exactly 19 name-keyed joints and exactly 18
\* bones in a fixed order; the counts, the joint names and the endpoints of
\* every bone never change.
C9_Counts19And18 ==
    /\ Cardinality(DOMAIN human.joints) = 19
    /\ Len(human.bones) = 18
    /\ DOMAIN human.joints = JointNames
    /\ BonesAsCreated

\* the skeleton after updates in both states and a toggle
C9_Witness ==
    /\ last = "update"
    /\ frames = MaxFrames
    /\ human.walking
    /\ human.calls[1] = <<"apply_walking_forces">>

\* the joints as create_joints placed them
InitialJoints == create_joints(human, ctor[1] * Unit, ctor[2] * Unit)

\* C10: the two joints of every bone are distinct, its rest length is > 0
\* and is the distance between the initial positions of its joints, and
\* neither the rest length nor the mass is ever modified.
C10_BonesImmutable ==
    \A i \in DOMAIN human.bones :
        /\ human.bones[i].joint1 # human.bones[i].joint2
        /\ human.bones[i].rest_length > 0
        /\ human.bones[i].rest_length =
               calculate_distance(InitialJoints, human.bones[i].joint1,
                                  human.bones[i].joint2)
        /\ human.bones[i].mass =
               calculate_segment_mass(human.body_mass, human.bones[i].name)

\* after an update that leaves a bone at a length other than its rest length
C10_Witness ==
    /\ last = "update"
    /\ \E i \in DOMAIN human.bones :
           calculate_distance(human.joints, human.bones[i].joint1,
                              human.bones[i].joint2) # human.bones[i].rest_length

-----------------------------------------------------------------------------
(* Properties of the frame loop *)

\* the statements of the loop at which an update is in flight
InFlight == {"integrate", "gravity", "relax"}

\* C11: each frame is: handle events, then one complete update, then draw.
\* draw reads the joints only when update has returned (the skeleton it
\* reads is the result of the whole update of the skeleton the call found),
\* never between two phases, and a toggle or a reset happens only while the
\* events are handled, never while an update is in flight.
C11_FrameSequence ==
    /\ last = "draw" =>
           /\ loop.pc \in {"tick", "done"}
           /\ human = update(loop.entry, loop.dt)
           /\ loop.drawn = Pixels(human)
    /\ last \in {"start_walking", "stop_walking", "reset", "quit"} =>
           loop.pc = "events"
    /\ loop.pc \in InFlight =>
           /\ last \in {"generate_forces", "integrate", "gravity"}
           /\ human.walking = loop.entry.walking
           /\ human.bones = loop.entry.bones

\* the second frame drawn, of a walking skeleton that the update has moved
C11_Witness ==
    /\ last = "draw"
    /\ frames = 1
    /\ human.walking
    /\ loop.drawn # Pixels(loop.entry)

-----------------------------------------------------------------------------
(* Properties of the forces and of the relaxation pass *)

\* the largest of the explicit clamps of the force generators: the +-300 of
\* the pelvis in maintain_standing_posture
LARGEST_CLAMP == 300

\* C12: every force passed to Joint.apply_force during an update, the
\* forces of the angle constraint included, has each component bounded in
\* magnitude by a constant that does not depend on the joint positions: no
\* component exceeds the largest clamp of the program.
C12_ForcesBounded ==
    last = "update" => human.peak <= LARGEST_CLAMP * Unit

\* the magnitude of the length error of bone i: on entry to the relaxation
\* pass of the latest update for m = 1, at the end of iteration m - 1 after
LengthError(m, i) == Abs(human.lengths[m][i] - human.bones[i].rest_length)

\* C13: for every bone with nonzero length error on entry to the relaxation
\* pass, the magnitude of its length error at the end of iteration k + 1 is
\* <= its magnitude at the end of iteration k, for k = 1, 2.
C13_MonotoneRelaxation ==
    last = "update" =>
        \A i \in DOMAIN human.bones :
            LengthError(1, i) # 0 =>
                \A k \in 1 .. ITERATIONS - 1 :
                    LengthError(k + 2, i) <= LengthError(k + 1, i)

-----------------------------------------------------------------------------
(* Properties of a single bone and its parent (BoneSpec) *)

\* the two joints of bone i of skeleton h are at the same place
Coincide(h, i) ==
    /\ h.joints[h.bones[i].joint1].x = h.joints[h.bones[i].joint2].x
    /\ h.joints[h.bones[i].joint1].y = h.joints[h.bones[i].joint2].y

\* C14: when the two joints of a bone coincide, apply_length_constraint
\* changes no position and no velocity; when the vector from the parent
\* bone's joint1 to the bone's joint1 is zero, apply_angle_constraint applies
\* no force and changes nothing; and an iteration of the relaxation loop
\* that meets these cases still makes all its calls.
C14_HazardsAreNoOps ==
    /\ last = "apply_length_constraint" /\ Coincide(loop.entry, 2) =>
           human = loop.entry
    /\ last = "apply_angle_constraint" /\ Coincide(loop.entry, 1) =>
           human = loop.entry
    /\ last = "relax_once" =>
           /\ human.calls = << <<"apply_length_constraint", "left_clavicle">>,
                               <<"apply_length_constraint", "left_upper_arm">>,
                               <<"apply_angle_constraint", "left_upper_arm",
                                 "left_clavicle">> >>
           /\ Coincide(loop.entry, 1) /\ Coincide(loop.entry, 2) =>
                  human.joints = loop.entry.joints

\* the angle constraint called with a zero parent vector on a bone that
\* points beyond its limit, its joints in motion
C14_Witness ==
    /\ last = "apply_angle_constraint"
    /\ Coincide(loop.entry, 1)
    /\ ~Coincide(loop.entry, 2)
    /\ human.joints["left_elbow"].x < human.joints["left_shoulder"].x
    /\ human.joints["left_elbow"].y < human.joints["left_shoulder"].y
    /\ human.joints["left_elbow"].vx # 0

\* C15: a bone constructed with an explicit length 0 keeps rest length 0,
\* and apply_length_constraint leaves its two joints where they are, even
\* when they are apart.
C15_ZeroLengthKept ==
    ctor[3] = <<0>> =>
        /\ human.bones[2].rest_length = 0
        /\ last = "apply_length_constraint" =>
               human.joints = loop.entry.joints

\* the separation vector of bone i of skeleton h, joint1 to joint2
SeparationX(h, i) == h.joints[h.bones[i].joint2].x - h.joints[h.bones[i].joint1].x

SeparationY(h, i) == h.joints[h.bones[i].joint2].y - h.joints[h.bones[i].joint1].y

\* the displacement of joint n by the latest call
MovedX(n) == human.joints[n].x - loop.entry.joints[n].x

MovedY(n) == human.joints[n].y - loop.entry.joints[n].y

\* the vectors (ax, ay) and (bx, by) are parallel, up to the rounding of the
\* components of the first to the nearest 1/Unit
Parallel(ax, ay, bx, by) == 2 * Abs(ax * by - ay * bx) <= Abs(bx) + Abs(by)

Sign(a) == IF a > 0 THEN 1 ELSE IF a < 0 THEN -1 ELSE 0

\* C19: apply_length_constraint moves the two joints of the bone by equal
\* and opposite displacements along their separation vector, joint1 toward
\* joint2 when the bone is too long and away from it when too short,
\* whatever the mass of the bone: the sum of the two positions is unchanged;
\* no velocity changes, and no joint other than the two endpoints.
C19_EqualAndOpposite ==
    last = "apply_length_constraint" =>
        /\ MovedX("left_shoulder") = -MovedX("left_elbow")
        /\ MovedY("left_shoulder") = -MovedY("left_elbow")
        /\ human.joints["left_shoulder"].x + human.joints["left_elbow"].x =
               loop.entry.joints["left_shoulder"].x
                   + loop.entry.joints["left_elbow"].x
        /\ human.joints["left_shoulder"].y + human.joints["left_elbow"].y =
               loop.entry.joints["left_shoulder"].y
                   + loop.entry.joints["left_elbow"].y
        /\ Parallel(MovedX("left_shoulder"), MovedY("left_shoulder"),
                    SeparationX(loop.entry, 2), SeparationY(loop.entry, 2))
        /\ Sign(MovedX("left_shoulder") * SeparationX(loop.entry, 2)
                  + MovedY("left_shoulder") * SeparationY(loop.entry, 2))
             * Sign(calculate_distance(loop.entry.joints, "left_shoulder",
                                       "left_elbow")
                      - human.bones[2].rest_length) >= 0
        /\ \A n \in DOMAIN human.joints :
               /\ human.joints[n].vx = loop.entry.joints[n].vx
               /\ human.joints[n].vy = loop.entry.joints[n].vy
        /\ human.joints["chest"] = loop.entry.joints["chest"]
        /\ human.bones = loop.entry.bones

\* the constraint applied to a bone that is too long, its joints moving
C19_Witness ==
    /\ last = "apply_length_constraint"
    /\ calculate_distance(loop.entry.joints, "left_shoulder", "left_elbow")
           > human.bones[2].rest_length + Unit
    /\ MovedX("left_shoulder") # 0
    /\ MovedY("left_shoulder") # 0
    /\ human.joints["left_elbow"].vx # 0

\* the rounding of a length computed from rounded positions: 1/50 pixel
Rounding == Unit \div 50

\* the length new is the length rest, up to the rounding of the positions
\* and to that of the length old it was corrected from (half of 1/Unit in
\* old, which the correction scales by rest / old)
SameLength(new, rest, old) == Abs(new - rest) * old <= Rounding * old + rest

\* C20: for a bone whose joints are at nonzero distance, one application of
\* apply_length_constraint makes the distance between its joints the rest
\* length and keeps the direction of the separation vector (exactly in exact
\* arithmetic; here up to the rounding of the fixed-point numbers).
C20_FullProjection ==
    last = "apply_length_constraint" /\ ~Coincide(loop.entry, 2) =>
        /\ SameLength(
               calculate_distance(human.joints, "left_shoulder", "left_elbow"),
               human.bones[2].rest_length,
               calculate_distance(loop.entry.joints, "left_shoulder", "left_elbow"))
        /\ Abs(SeparationX(human, 2) * SeparationY(loop.entry, 2)
                 - SeparationY(human, 2) * SeparationX(loop.entry, 2))
               <= Abs(SeparationX(loop.entry, 2)) + Abs(SeparationY(loop.entry, 2))
        /\ SeparationX(human, 2) * SeparationX(loop.entry, 2)
             + SeparationY(human, 2) * SeparationY(loop.entry, 2)
               >= -(Abs(SeparationX(loop.entry, 2)) + Abs(SeparationY(loop.entry, 2)))

\* the constraint applied to a bone more than a pixel shorter than its
\* rest length
C20_Witness ==
    /\ last = "apply_length_constraint"
    /\ ~Coincide(loop.entry, 2)
    /\ calculate_distance(loop.entry.joints, "left_shoulder", "left_elbow")
           < human.bones[2].rest_length - Unit
    /\ calculate_distance(human.joints, "left_shoulder", "left_elbow")
           = human.bones[2].rest_length

-----------------------------------------------------------------------------
(* Properties of the configuration and of the walking state *)

\* C16: a hierarchy table entry that names a bone the skeleton does not have
\* is an error of construction: no update ever runs that skips an entry of
\* the table, every entry is applied in each of its iterations.
C16_NoEntrySkipped ==
    last = "update" =>
        \A e \in DOMAIN bone_hierarchy :
            Cardinality({i \in DOMAIN human.calls :
                human.calls[i] = <<"apply_angle_constraint",
                                   bone_hierarchy[e][1], bone_hierarchy[e][2]>>})
              = ITERATIONS

\* the phase an update of dt milliseconds adds at walk_speed
PhaseAdvance(h, dt) == RDiv(dt * h.walk_speed * AngleUnit, 1000)

\* C17: the gait phase starts at 0 (at construction and at a reset) and
\* never decreases over update, start_walking and stop_walking: an update
\* in Walking adds exactly dt * walk_speed to it before the gait generator
\* reads it, an update in Standing leaves it unchanged, and the toggles
\* leave it unchanged, so that walking resumes from the stored phase.
C17_GaitPhaseMonotone ==
    [][/\ last = "init" => human.walk_cycle_time = 0
       /\ last' = "reset" => human'.walk_cycle_time = 0
       /\ last' \in {"update", "start_walking", "stop_walking"} =>
              human'.walk_cycle_time >= human.walk_cycle_time
       /\ last' = "update" /\ human.walking =>
              /\ human'.walk_cycle_time =
                     human.walk_cycle_time + PhaseAdvance(human, loop'.dt)
              /\ human'.cycle_phase = human'.walk_cycle_time % TWO_PI
       /\ last' = "update" /\ ~human.walking =>
              /\ human'.walk_cycle_time = human.walk_cycle_time
              /\ human'.cycle_phase = human.cycle_phase
       /\ last' \in {"start_walking", "stop_walking"} =>
              human'.walk_cycle_time = human.walk_cycle_time]_vars

\* an update in Walking that adds to a phase accumulated in an earlier
\* frame, in a run one of whose updates was made in Standing
C17_Witness ==
    /\ last = "update"
    /\ frames = MaxFrames
    /\ human.walking
    /\ loop.entry.walk_cycle_time > 0
    /\ human.walk_cycle_time > loop.entry.walk_cycle_time
    /\ human.walk_cycle_time < MaxFrames * PhaseAdvance(human, 1000 \div FPS)

\* C18: the walking flag is changed only by start_walking, stop_walking and
\* the reconstruction of the skeleton, which sets it false: no phase of an
\* update changes it, and through the whole of an update it is the flag the
\* call found, by which the one force generator was chosen.
C18_WalkingToggledExternally ==
    [][/\ human'.walking # human.walking =>
              last' \in {"start_walking", "stop_walking", "reset"}
       /\ last' = "reset" => ~human'.walking
       /\ last' \in {"generate_forces", "integrate", "gravity", "relax"} =>
              /\ human'.walking \in BOOLEAN
              /\ human'.walking = loop'.entry.walking
              /\ human'.calls[1] = IF loop'.entry.walking
                                    THEN <<"apply_walking_forces">>
                                    ELSE <<"maintain_standing_posture">>]_vars

\* the update of the second frame returns, the skeleton walking since the
\* first
C18_Witness ==
    /\ last = "relax"
    /\ frames = 1
    /\ human.walking
    /\ human.walk_cycle_time > PhaseAdvance(human, 1000 \div FPS + 1)


-----------------------------------------------------------------------------
(* The angle constraint of a single bone (BoneSpec) *)

\* the positions of the joints of skeleton h
Positions(h) == [n \in DOMAIN h.joints |-> <<h.joints[n].x, h.joints[n].y>>]

\* the direction angle of the vector from joint a to joint b of skeleton h
Direction(h, a, b) ==
    Atan2(h.joints[b].y - h.joints[a].y, h.joints[b].x - h.joints[a].x)

\* the difference of the direction of left_upper_arm and the reference
\* direction chest - left_shoulder in skeleton h, before normalization
RawDifference(h) ==
    Direction(h, "left_shoulder", "left_elbow")
        - Direction(h, "chest", "left_shoulder")

\* the angle a of (-2 pi, 2 pi) brought into [-pi, pi] by one turn at most
Wrapped(a) ==
    IF a > PI THEN a - TWO_PI ELSE IF a < -PI THEN a + TWO_PI ELSE a

\* apply_angle_constraint(parent_bone) got as far as the relative angle, and
\* that angle is outside the limits of left_elbow
OutsideLimits(h) ==
    /\ h.joints["left_elbow"].angle_limits # None
    /\ ~Coincide(h, 1)
    /\ \/ Wrapped(RawDifference(h)) < h.joints["left_elbow"].angle_limits[1]
       \/ Wrapped(RawDifference(h)) > h.joints["left_elbow"].angle_limits[2]

\* the limit the relative angle a is clamped to
ClampedAngle(h, a) ==
    IF a < h.joints["left_elbow"].angle_limits[1]
    THEN h.joints["left_elbow"].angle_limits[1]
    ELSE h.joints["left_elbow"].angle_limits[2]

\* the ideal position of left_elbow: at rest length from left_shoulder along
\* the reference direction turned by the clamped angle
IdealPosition(h) ==
    LET along == Direction(h, "chest", "left_shoulder")
                     + ClampedAngle(h, Wrapped(RawDifference(h)))
    IN  << h.joints["left_shoulder"].x
               + Mul(h.bones[2].rest_length, Cos(along), AngleUnit),
           h.joints["left_shoulder"].y
               + Mul(h.bones[2].rest_length, Sin(along), AngleUnit) >>

AngleComputed ==
    /\ last = "apply_angle_constraint"
    /\ loop.entry.joints["left_elbow"].angle_limits # None
    /\ ~Coincide(loop.entry, 1)

\* C22 as stated: the angle difference is normalized into the half-open
\* interval (-pi, pi]: the normalized value is greater than -pi, at most pi,
\* and differs from the raw difference by a multiple of 2 pi.
C22_HalfOpenInterval ==
    AngleComputed =>
        /\ human.relative_angle # None
        /\ human.relative_angle[1] > -PI
        /\ human.relative_angle[1] <= PI
        /\ (human.relative_angle[1] - RawDifference(loop.entry)) % TWO_PI = 0

\* C22, corrected: the angle difference is normalized into the closed
\* interval [-pi, pi]: the normalized value is at least -pi, at most pi, and
\* differs from the raw difference by a multiple of 2 pi; a raw difference
\* of -pi or of pi is left as it is.
C22_ClosedInterval ==
    AngleComputed =>
        /\ human.relative_angle # None
        /\ human.relative_angle[1] >= -PI
        /\ human.relative_angle[1] <= PI
        /\ (human.relative_angle[1] - RawDifference(loop.entry)) % TWO_PI = 0
        /\ RawDifference(loop.entry) \in {-PI, PI} =>
               human.relative_angle[1] = RawDifference(loop.entry)

\* the upper arm points right and the clavicle left: the difference of
\* their angles is -pi, and so is the normalized angle
C22_Witness ==
    /\ AngleComputed
    /\ RawDifference(loop.entry) = -PI
    /\ human.relative_angle = <<-PI>>

-----------------------------------------------------------------------------
(* The reference direction of the angle constraints (Spec) *)

\* the bone of skeleton h that entry e of bone_hierarchy constrains
ChildBone(h, e) == h.bones[bone_dict(h, bone_hierarchy[e][1])]

\* the bone of skeleton h that entry e of bone_hierarchy names as parent
ParentBone(h, e) == h.bones[bone_dict(h, bone_hierarchy[e][2])]

\* parent_angle of apply_angle_constraint for entry e: the angle of the
\* vector from the joint1 of the parent bone to the joint1 of the bone
ReferenceAngle(h, e) ==
    Direction(h, ParentBone(h, e).joint1, ChildBone(h, e).joint1)

\* C23: for each of the 10 entries of the hierarchy the joint2 of the parent
\* bone is the joint1 of the constrained bone, so the reference angle of
\* apply_angle_constraint is the direction angle of the parent bone itself.
C23_ReferenceIsParentBone ==
    \A e \in DOMAIN bone_hierarchy :
        /\ ParentBone(human, e).joint2 = ChildBone(human, e).joint1
        /\ ReferenceAngle(human, e) =
               Direction(human, ParentBone(human, e).joint1,
                                ParentBone(human, e).joint2)

-----------------------------------------------------------------------------
(* The force generators on a posed skeleton (PoseSpec).  human is the     *)
(* skeleton of main with its feet, pelvis, chest and head placed relative  *)
(* to the targets of the controllers and its gait clock set; ctor holds    *)
(* the pose, loop.entry the skeleton before the latest call.               *)

\* the largest number of calls in a run
MaxPoseCalls == 2

\* target_pelvis_x, target_pelvis_y of maintain_standing_posture
TargetPelvis(h) ==
    << RDiv(h.joints["left_foot"].x + h.joints["right_foot"].x, 2),
       GROUND_Y - h.upper_leg_length - h.lower_leg_length - 20 * Unit >>

\* target_chest_x, target_chest_y of maintain_standing_posture
TargetChest(h) ==
    << h.joints["pelvis"].x, h.joints["pelvis"].y - RDiv(h.torso_length, 2) >>

\* target_head_x, target_head_y of maintain_standing_posture
TargetHead(h) ==
    << h.joints["chest"].x,
       h.joints["chest"].y - RDiv(h.torso_length, 2) - h.head_size >>

\* foot.y - GROUND_Y of the left foot: in the air, just above the line, on
\* it, and below it
LeftFootHeights == { -30 * Unit, -(Unit \div 2), 0, 2 * Unit }

\* foot.y - GROUND_Y of the right foot
RightFootHeights == { -(Unit \div 4), 3 * Unit }

\* pelvis minus its target: none, small, and large
PelvisErrors == { <<0, 0>>, <<2 * Unit, -3 * Unit>>, <<-10 * Unit, 7 * Unit>> }

\* chest minus its target: none, small, and large
ChestErrors == { <<0, 0>>, <<-2 * Unit, Unit>>, <<40 * Unit, -5 * Unit>> }

\* head minus its target: none, at distance 2, nearer than 2, just beyond
\* 2, at distance 5, and far
HeadErrors ==
    { <<0, 0>>, <<2 * Unit, 0>>, <<Unit, -Unit>>,
      <<0, 2 * Unit + 1>>, <<3 * Unit, -4 * Unit>>, <<-30 * Unit, 10 * Unit>> }

\* walk_cycle_time: the quarters of the cycle, and points within them
Phases ==
    { 0, HALF_PI, PI, PI + HALF_PI, AngleUnit \div 5, 2 * AngleUnit,
      4 * AngleUnit, TWO_PI + 6 * AngleUnit }

Poses ==
    LeftFootHeights \X RightFootHeights \X PelvisErrors \X ChestErrors
        \X HeadErrors \X Phases

\* the skeleton h with its feet at the heights p[1], p[2]
WithFeet(h, p) ==
    [h EXCEPT !.joints["left_foot"].y = GROUND_Y + p[1],
              !.joints["right_foot"].y = GROUND_Y + p[2],
              !.walk_cycle_time = p[6]]

\* the skeleton h with joint n at target plus error
Placed(h, n, target, error) ==
    [h EXCEPT !.joints[n].x = target[1] + error[1],
              !.joints[n].y = target[2] + error[2]]

\* the skeleton h with its pelvis, then its chest, then its head placed
WithPelvis(h, p) == Placed(h, "pelvis", TargetPelvis(h), p[3])

WithChest(h, p) == Placed(h, "chest", TargetChest(h), p[4])

WithHead(h, p) == Placed(h, "head", TargetHead(h), p[5])

Posed(h, p) == WithHead(WithChest(WithPelvis(WithFeet(h, p), p), p), p)

PoseInit ==
    /\ ctor \in Poses
    /\ human = Posed(HumanSkeleton(WIDTH \div 2, HEIGHT \div 2, 1), ctor)
    /\ frames = 0
    /\ last = "init"
    /\ joint = Joint(0, 0, None)
    /\ jcall = NoCall
    /\ loop = NewLoop(human)

\* human.apply_walking_forces()
PoseWalk ==
    /\ frames < MaxPoseCalls
    /\ human' = apply_walking_forces(human)
    /\ last' = "apply_walking_forces"
    /\ frames' = frames + 1
    /\ loop' = [loop EXCEPT !.entry = human]
    /\ UNCHANGED <<ctor, joint, jcall>>

\* human.maintain_standing_posture()
PoseStand ==
    /\ frames < MaxPoseCalls
    /\ human' = maintain_standing_posture(human)
    /\ last' = "maintain_standing_posture"
    /\ frames' = frames + 1
    /\ loop' = [loop EXCEPT !.entry = human]
    /\ UNCHANGED <<ctor, joint, jcall>>

\* joint.update(dt) on every joint
PoseMove(dt) ==
    /\ frames < MaxPoseCalls
    /\ human' = UpdateAllJoints([human EXCEPT !.calls = <<>>], dt)
    /\ last' = "Joint.update"
    /\ frames' = frames + 1
    /\ loop' = [loop EXCEPT !.dt = dt, !.entry = human]
    /\ UNCHANGED <<ctor, joint, jcall>>

PoseNext ==
    \/ PoseWalk
    \/ PoseStand
    \/ \E dt \in {1000 \div FPS} : PoseMove(dt)

PoseSpec == PoseInit /\ [][PoseNext]_vars

-----------------------------------------------------------------------------
(* Properties of the force generators (PoseSpec) *)

\* the velocity that the latest call has added to joint n
Gained(n) ==
    << human.joints[n].vx - loop.entry.joints[n].vx,
       human.joints[n].vy - loop.entry.joints[n].vy >>

\* the component f of a force is within the bound, in pixels, and is the
\* product g of gain and error when that product is within the bound
Bounded(f, bound, g) ==
    /\ Abs(f) <= bound * Unit
    /\ Abs(g) <= bound * Unit => f = g

\* the two components of the force on joint n are bounded products of the
\* gain num / den and the error from joint n to the target
BoundedPull(n, bound, target, num, den) ==
    /\ Bounded(Gained(n)[1], bound,
               RDiv((target[1] - loop.entry.joints[n].x) * num, den))
    /\ Bounded(Gained(n)[2], bound,
               RDiv((target[2] - loop.entry.joints[n].y) * num, den))

\* the targets of the feet in the latest apply_walking_forces
TargetLeftFoot ==
    << loop.entry.joints["pelvis"].x - 10 * Unit + human.gait_targets[1],
       GROUND_Y - human.gait_targets[2] >>

TargetRightFoot ==
    << loop.entry.joints["pelvis"].x + 10 * Unit + human.gait_targets[3],
       GROUND_Y - human.gait_targets[4] >>

\* amplitude times the sine of angle a
Swing(amplitude, a) == Mul(Sin(a), amplitude * human.scale * Unit, AngleUnit)

\* the head of skeleton h is farther than the dead zone from its target
BeyondDeadZone(h) ==
    (TargetHead(h)[1] - h.joints["head"].x)
            * (TargetHead(h)[1] - h.joints["head"].x)
        + (TargetHead(h)[2] - h.joints["head"].y)
            * (TargetHead(h)[2] - h.joints["head"].y)
    > (DEAD_ZONE * Unit) * (DEAD_ZONE * Unit)

\* C24: each clamped generator force stays within its bound: the gait forces
\* on the feet within [-100, 100] per axis, on the hands within [-30, 30]
\* horizontally and 0 vertically, the bounce on the pelvis within [-20, 20];
\* the balance forces on the pelvis within [-300, 300], on the chest within
\* [-50, 50], on the head within [-20, 20] per axis; and a force inside its
\* bound is the gain times the error.
C24_ClampedForces ==
    /\ last = "apply_walking_forces" =>
           /\ BoundedPull("left_foot", 100, TargetLeftFoot, 10, 1)
           /\ BoundedPull("right_foot", 100, TargetRightFoot, 10, 1)
           /\ Bounded(Gained("left_hand")[1], 30,
                      2 * Swing(20, human.cycle_phase + PI))
           /\ Bounded(Gained("right_hand")[1], 30,
                      2 * Swing(20, human.cycle_phase))
           /\ Gained("left_hand")[2] = 0
           /\ Gained("right_hand")[2] = 0
           /\ Bounded(Gained("pelvis")[2], 20,
                      2 * Swing(5, human.cycle_phase * 2))
    /\ last = "maintain_standing_posture" =>
           /\ BoundedPull("pelvis", 300, TargetPelvis(loop.entry),
                          loop.entry.posture_force, 1)
           /\ BoundedPull("chest", 50, TargetChest(loop.entry),
                          loop.entry.posture_force * 3, 10)
           /\ IF BeyondDeadZone(loop.entry)
              THEN BoundedPull("head", 20, TargetHead(loop.entry),
                               loop.entry.posture_force, 10)
              ELSE Gained("head") = <<0, 0>>

\* the balance controller has pulled the pelvis with a force at its two
\* bounds and the chest with a force inside its bounds, on a skeleton
\* already in motion
C24_Witness ==
    /\ last = "maintain_standing_posture"
    /\ loop.entry.joints["pelvis"].vx # 0
    /\ Gained("pelvis") = <<300 * Unit, -300 * Unit>>
    /\ Abs(Gained("chest")[1]) < 50 * Unit
    /\ Gained("chest")[1] # 0

\* C25: the two legs are half a cycle apart: at every gait phase the
\* horizontal target offsets of the left and the right foot are negatives
\* of each other, both lifts are at least 0, so that no target is below the
\* ground line, at most one of the two lifts is nonzero, and a foot has a
\* nonzero lift only while its own horizontal offset is positive.
C25_LegsHalfCycleApart ==
    last = "apply_walking_forces" =>
        /\ human.gait_targets[1] = -human.gait_targets[3]
        /\ human.gait_targets[2] >= 0
        /\ human.gait_targets[4] >= 0
        /\ TargetLeftFoot[2] <= GROUND_Y
        /\ TargetRightFoot[2] <= GROUND_Y
        /\ human.gait_targets[2] = 0 \/ human.gait_targets[4] = 0
        /\ human.gait_targets[2] # 0 => human.gait_targets[1] > 0
        /\ human.gait_targets[4] # 0 => human.gait_targets[3] > 0

\* in the second half of a cycle the right foot is lifted and ahead, the
\* left foot on the ground and behind
C25_Witness ==
    /\ last = "apply_walking_forces"
    /\ human.cycle_phase > PI
    /\ human.gait_targets[4] > 0
    /\ human.gait_targets[3] > 0
    /\ human.gait_targets[2] = 0
    /\ human.gait_targets[1] < 0

\* C26: the head receives a force from the balance controller exactly when
\* the distance between the head and its target above the chest is
\* strictly greater than 2; at a distance of 2 or less the controller
\* leaves the velocity of the head as it was.
C26_HeadDeadZone ==
    last = "maintain_standing_posture" =>
        /\ BeyondDeadZone(loop.entry) <=> Gained("head") # <<0, 0>>
        /\ ~BeyondDeadZone(loop.entry) =>
               human.joints["head"] = loop.entry.joints["head"]

\* the head was 2 pixels beside its target and has received no force
C26_Witness ==
    /\ last = "maintain_standing_posture"
    /\ loop.entry.joints["head"].x = TargetHead(loop.entry)[1] + 2 * Unit
    /\ loop.entry.joints["head"].y = TargetHead(loop.entry)[2]
    /\ Gained("head") = <<0, 0>>

\* the feet
Feet == {"left_foot", "right_foot"}

\* C27 as stated: in Standing each foot off the ground line, on either
\* side of it, receives a purely vertical force toward the line, 100 times
\* its distance to the line and at most 100; a foot on the line receives
\* none.
C27_PulledFromEitherSide ==
    last = "maintain_standing_posture" =>
        \A n \in Feet :
            /\ Gained(n)[1] = 0
            /\ Gained(n)[2] =
                   Clamp(-100 * Unit, 100 * Unit,
                         (GROUND_Y - loop.entry.joints[n].y)
                             * loop.entry.standing_balance_force)

\* C27, corrected: in Standing each foot above the ground line, y less than
\* GROUND_Y, receives a purely vertical force down toward the line, 100
\* times its distance to the line and at most 100; a foot on the line or
\* below it receives none.
C27_PulledFromAbove ==
    last = "maintain_standing_posture" =>
        \A n \in Feet :
            /\ Gained(n)[1] = 0
            /\ Gained(n)[2] =
                   IF loop.entry.joints[n].y < GROUND_Y
                   THEN Min((GROUND_Y - loop.entry.joints[n].y)
                                * loop.entry.standing_balance_force,
                            100 * Unit)
                   ELSE 0

\* the left foot was half a pixel above the line and is pushed down by 50,
\* the right foot was below the line and is left alone
C27_Witness ==
    /\ last = "maintain_standing_posture"
    /\ loop.entry.joints["left_foot"].y = GROUND_Y - Unit \div 2
    /\ Gained("left_foot") = <<0, 50 * Unit>>
    /\ loop.entry.joints["right_foot"].y > GROUND_Y
    /\ Gained("right_foot") = <<0, 0>>

-----------------------------------------------------------------------------
(* Gravity within a frame (FrameSpec) *)

\* mass * GRAVITY * dt / 2 of a bone, dt in milliseconds
HalfWeight(bone, dt) ==
    RDiv(RDiv(bone.mass * GRAVITY, (2 * MassUnit) \div Unit) * dt, 1000)

\* the sum of the half weights of the bones from i on that end in joint n
RECURSIVE HalvesOn(_, _, _, _)
HalvesOn(bones, n, dt, i) ==
    IF i > Len(bones) THEN 0
    ELSE (IF n \in {bones[i].joint1, bones[i].joint2}
          THEN HalfWeight(bones[i], dt) ELSE 0)
         + HalvesOn(bones, n, dt, i + 1)

\* the sum of the vertical velocities of the joints of h from JointOrder[k] on
RECURSIVE SumOfVy(_, _)
SumOfVy(h, k) ==
    IF k > Len(JointOrder) THEN 0
    ELSE h.joints[JointOrder[k]].vy + SumOfVy(h, k + 1)

\* (sum of the masses of the bones) * GRAVITY * dt, dt in milliseconds
WholeWeight(bones, dt) ==
    RDiv(RDiv(SumOfMasses(bones, 1) * GRAVITY, MassUnit \div Unit) * dt, 1000)

\* C28: the gravity phase of a frame comes right after the integration and
\* adds, for every bone, mass * GRAVITY * dt / 2 to the vertical velocity of
\* each of its two joints: a joint gains the sum of the halves of the bones
\* it ends, and all joints together gain (sum of the masses) * GRAVITY * dt,
\* up to one unit of rounding per bone.  It changes no horizontal velocity,
\* no position and no bone, so what it adds moves no joint before the
\* integration of the next frame.
C28_GravityHalves ==
    [][last' = "gravity" =>
        /\ last = "integrate"
        /\ human'.bones = human.bones
        /\ \A n \in DOMAIN human.joints :
               /\ human'.joints[n].x = human.joints[n].x
               /\ human'.joints[n].y = human.joints[n].y
               /\ human'.joints[n].vx = human.joints[n].vx
               /\ human'.joints[n].vy =
                      human.joints[n].vy + HalvesOn(human.bones, n, loop.dt, 1)
        /\ Abs(SumOfVy(human', 1) - SumOfVy(human, 1)
                   - WholeWeight(human.bones, loop.dt)) <= Len(human.bones)
    ]_vars

\* gravity has run in the second frame, on joints that the first frame set
\* in motion: the chest, where five bones end, falls faster than before
C28_Witness ==
    /\ last = "gravity"
    /\ frames = 1
    /\ loop.entry.joints["chest"].vy # 0
    /\ human.joints["chest"].vy > loop.entry.joints["chest"].vy
    /\ HalvesOn(human.bones, "chest", loop.dt, 1)
           > HalvesOn(human.bones, "head", loop.dt, 1)
=============================================================================
